---------------------------- MODULE Spec2Model ----------------------------
(***************************************************************************)
(* Voice-based MFA backend (backend/main.py, utils.py, models.py,          *)
(* create_admin.py) as a state machine.                                    *)
(*                                                                         *)
(* The relational store is the tables of models.py; every HTTP handler of  *)
(* main.py is one action, taken at the wall-clock instant `now`.           *)
(* Time is counted in milliseconds since midnight (UTC) of day 0.          *)
(* Money is counted in cents (the code rounds fines to 2 decimals).        *)
(* An uploaded audio file is a record of what the audio capabilities       *)
(* (pydub, the enhancement model, the spoof classifier, the speaker        *)
(* encoder) report about it.                                               *)
(***************************************************************************)
EXTENDS Integers, Sequences, FiniteSets, TLC

\* ------------------------------------------------------------------ bounds

\* Rows the model lets each table grow to.
MaxChallenges == 2
MaxAttendance == 2
MaxTasks == 1

\* ------------------------------------------------------------- time units

MsPerSecond == 1000
MsPerMinute == 60 * MsPerSecond
MsPerHour == 60 * MsPerMinute
MsPerDay == 24 * MsPerHour

\* main.py:31-33
WORK_START_HOUR == 9
WORK_END_HOUR == 17
\* FINE_PER_HOUR_REMAINING = 50.0, in cents
FINE_PER_HOUR_REMAINING == 5000

\* main.py:112  timedelta(seconds=300)
CHALLENGE_TTL == 300 * MsPerSecond
\* main.py:151  timedelta(minutes=10)
PENDING_TTL == 10 * MsPerMinute
\* main.py:73   timedelta(hours=24)
TOKEN_TTL == 24 * MsPerHour

\* datetime.date() / func.date(): the calendar day of an instant
DateOf(t) == t \div MsPerDay
\* now.replace(hour=WORK_END_HOUR, minute=0, second=0, microsecond=0)
ReplaceHour(t, h) == DateOf(t) * MsPerDay + h * MsPerHour

\* The instants at which requests arrive: around the 17:00 cutoff of day 0,
\* past the challenge and pending-registration lifetimes, and on day 1.
Cutoff0 == WORK_END_HOUR * MsPerHour
Instants ==
    { Cutoff0 - MsPerHour,
      Cutoff0 - MsPerMinute,
      Cutoff0 - 300,
      Cutoff0,
      Cutoff0 + CHALLENGE_TTL + 1,
      Cutoff0 + PENDING_TTL + 1,
      Cutoff0 - MsPerMinute + MsPerDay,
      Cutoff0 + MsPerDay }
StartTime == Cutoff0 - MsPerHour

NoTime == -1

\* database.py:22, models.py:56  func.now() is MySQL's NOW(), the time of day
\* in the time zone of the database session: UTC, or a zone ahead of it
\* (here UTC+8).
DbOffsets == {0, 8 * MsPerHour}

\* --------------------------------------------------------------- the inputs

Usernames == {"alice", "bob"}
Roles == {"employee", "admin"}

\* PINs as the characters typed
PinA == <<"1", "2", "3", "4">>
PinB == <<"9", "9", "9", "9">>
PinShort == <<"1", "2">>
Pins == {PinA, PinB, PinShort}
\* 13 characters, and 4 characters one of which is no letter or digit
PinLong == <<"1", "2", "3", "4", "5", "6", "7", "8", "9", "0", "1", "2", "3">>
PinSymbol == <<"1", "2", "#", "4">>

\* Python's None where an embedding or a signal is expected
NoEmb == <<>>
NoPin == <<>>
NoAudio == [none |-> TRUE]
\* a NULL sample_N_embedding column
NoBlob == [tag |-> "none", ciphertext |-> <<>>]

\* Speaker embeddings (the encoder's vectors, here with 2 components):
\* speaker 1, speaker 1 on another day (cosine 0.707 to EmbS1), a speaker who
\* sounds alike (cosine 0.447 to EmbS1), speaker 2 (cosine 0).
EmbS1 == <<6, 0>>
EmbS1b == <<6, 6>>
EmbS3 == <<3, 6>>
EmbS2 == <<0, 6>>

\* What the audio capabilities report about an uploaded file.
GoodAudio(e) ==
    [readable |-> TRUE, silent |-> FALSE, loud |-> FALSE, multi |-> FALSE,
     too_large |-> FALSE, enhance_ok |-> TRUE, cls |-> "REAL",
     playback |-> FALSE, pb_error |-> FALSE, emb |-> e]
AudioS1 == GoodAudio(EmbS1)
AudioS1b == GoodAudio(EmbS1b)
AudioS3 == GoodAudio(EmbS3)
AudioS2 == GoodAudio(EmbS2)
AudioSilent == [AudioS1 EXCEPT !.silent = TRUE]
AudioUnreadable == [AudioS1 EXCEPT !.readable = FALSE]
AudioNoEnhance == [AudioS1 EXCEPT !.enhance_ok = FALSE]
AudioFake == [AudioS1 EXCEPT !.cls = "FAKE"]
AudioPlayback == [AudioS1 EXCEPT !.playback = TRUE]
AudioLoudPlayback == [AudioS1 EXCEPT !.loud = TRUE, !.playback = TRUE]
AudioLoudFake == [AudioS1 EXCEPT !.loud = TRUE, !.cls = "FAKE"]
AudioClsError == [AudioS1 EXCEPT !.cls = "ERROR"]
\* a replayed recording on which the playback analysis itself raises
AudioPlaybackError == [AudioS1 EXCEPT !.playback = TRUE, !.pb_error = TRUE]
Audios ==
    { AudioS1, AudioS1b, AudioS3, AudioS2, AudioSilent, AudioUnreadable, AudioNoEnhance,
      AudioFake, AudioPlayback, AudioLoudPlayback, AudioLoudFake, AudioClsError,
      AudioPlaybackError }

\* The file lists a one-shot registration is called with.
EnrollInputs ==
    { <<AudioS1, AudioS1, AudioS1>>,
      <<AudioS1, AudioS1b, AudioS1>>,
      <<AudioS1, AudioS1, AudioFake>>,
      <<AudioS2>> }

\* ------------------------------------------------------------ utils.py

\* utils.py:225-232  hash_pin raises ValueError outside 4..12 characters
HashPinAccepts(pin) == Len(pin) >= 4 /\ Len(pin) <= 12
\* bcrypt.hashpw: a salted one-way digest of the PIN
HashPin(pin) == [alg |-> "bcrypt", of |-> pin]
\* utils.py:234-239
VerifyPin(plain_pin, hashed_pin) == hashed_pin.of = plain_pin

\* str.isalnum() on the characters a PIN is typed with
AlnumChars ==
    { "0", "1", "2", "3", "4", "5", "6", "7", "8", "9",
      "a", "b", "c", "d", "e", "f", "g", "h", "i", "j", "k", "l", "m",
      "n", "o", "p", "q", "r", "s", "t", "u", "v", "w", "x", "y", "z",
      "A", "B", "C", "D", "E", "F", "G", "H", "I", "J", "K", "L", "M",
      "N", "O", "P", "Q", "R", "S", "T", "U", "V", "W", "X", "Y", "Z" }
\* utils.py:515-518  validate_pin (no handler calls it)
ValidatePin(pin) ==
    /\ Len(pin) >= 4 /\ Len(pin) <= 12
    /\ \A i \in 1..Len(pin) : pin[i] \in AlnumChars

\* utils.py:154-222  check_audio_quality: only silence is a hard reject; an
\* unreadable file takes the except branch, which answers "valid".
CheckAudioQuality(a) ==
    IF ~a.readable THEN [is_valid |-> TRUE, is_loud |-> FALSE, is_multi |-> FALSE]
    ELSE IF a.silent THEN [is_valid |-> FALSE, is_loud |-> FALSE, is_multi |-> FALSE]
    ELSE [is_valid |-> TRUE, is_loud |-> a.loud,
          is_multi |-> IF a.loud THEN FALSE ELSE a.multi]

\* utils.py:289-331  load_and_enhance_audio: None on any failure
LoadAndEnhanceAudio(a) ==
    IF ~a.readable \/ a.too_large \/ a.silent \/ ~a.enhance_ok THEN NoEmb
    ELSE a.emb

\* utils.py:386  os.getenv("SKIP_SPOOF_CHECK") == "true" (unset by default)
SKIP_SPOOF_CHECK == FALSE

\* the label of a rejection never downgraded
CheckSpoofingNoDowngrade(a, is_clipped) ==
    IF ~a.readable \/ a.cls = "ERROR" THEN [is_real |-> FALSE, label |-> "ERROR"]
    ELSE IF a.cls = "REAL" /\ a.playback /\ ~a.pb_error
    THEN [is_real |-> FALSE, label |-> "PLAYBACK"]
    ELSE [is_real |-> a.cls = "REAL", label |-> a.cls]

\* utils.py:333-381  detect_playback_artifacts: False when the analysis raises
DetectPlaybackArtifacts(a) == IF a.pb_error THEN FALSE ELSE a.playback

\* utils.py:383-449  check_spoofing
CheckSpoofing(a, is_clipped) ==
    IF SKIP_SPOOF_CHECK THEN [is_real |-> TRUE, label |-> "REAL"]
    ELSE IF ~a.readable \/ a.cls = "ERROR" THEN [is_real |-> FALSE, label |-> "ERROR"]
    ELSE LET is_playback == DetectPlaybackArtifacts(a)
             is_real == a.cls = "REAL" /\ ~is_playback
             label1 == IF a.cls = "REAL" /\ is_playback THEN "PLAYBACK" ELSE a.cls
             label2 == IF ~is_real /\ is_clipped /\ label1 = "PLAYBACK"
                       THEN "QUALITY_ISSUE" ELSE label1
         IN [is_real |-> is_real, label |-> label2]

\* utils.py:451-456
GetVoiceEmbedding(clean) == clean

\* utils.py:459-471  AES-GCM blob {iv, tag, ciphertext}
EncryptVoiceprint(e) == [tag |-> "ok", ciphertext |-> e]
\* the plaintext taken without the tag being verified
DecryptVoiceprintUnchecked(blob) == blob.ciphertext
\* utils.py:473-483  None when the blob does not authenticate
DecryptVoiceprint(blob) == IF blob.tag = "ok" THEN blob.ciphertext ELSE NoEmb

Dot(x, y) == x[1] * y[1] + x[2] * y[2]
\* utils.py:485-507  compare_faces: the cosine as the fraction
\* dot / sqrt(nn); 0.0 when an embedding is missing.
CompareFaces(e1, e2) ==
    IF e1 = NoEmb \/ e2 = NoEmb THEN [dot |-> 0, nn |-> 1]
    ELSE [dot |-> Dot(e1, e2), nn |-> Dot(e1, e1) * Dot(e2, e2)]
\* a threshold of 0.25 in the place of 0.50
ScoreBelowQuarter(score) ==
    ~(score.dot >= 0 /\ 16 * score.dot * score.dot >= score.nn)
\* main.py:424, 666  score < 0.50
ScoreBelowThreshold(score) ==
    ~(score.dot >= 0 /\ 4 * score.dot * score.dot >= score.nn)

\* np.mean(embeddings, axis=0)
RECURSIVE SumEmb(_)
SumEmb(es) ==
    IF es = <<>> THEN <<0, 0>>
    ELSE <<Head(es)[1] + SumEmb(Tail(es))[1], Head(es)[2] + SumEmb(Tail(es))[2]>>
MeanEmb(es) == <<SumEmb(es)[1] \div Len(es), SumEmb(es)[2] \div Len(es)>>

\* ---------------------------------------------------------------- state

VARIABLES
    users,       \* models.User rows, by username (unique)
    pending,     \* models.PendingRegistration rows, by username (unique)
    challenges,  \* models.Challenge rows, in insertion order
    attendance,  \* models.Attendance rows, in insertion order
    tasks,       \* models.Task rows, in insertion order
    tokens,      \* the session token each client holds (the latest issued)
    now,         \* datetime.utcnow()
    dbOffset,    \* what the database's NOW() is ahead of UTC (its time zone)
    login_attempts, \* models.LoginAttempt rows, in insertion order
    uploads,     \* the files under uploads/
    workers,     \* the request each worker is in the middle of
    disk,        \* what the temporary files of the requests in the middle hold
    last,        \* the latest request and the response it got
    guard        \* history: the lockout state machine of spec 4.4, per identity

vars == <<users, pending, challenges, attendance, tasks, tokens, now, dbOffset,
          login_attempts, uploads, workers, disk, last, guard>>
tables == <<users, pending, challenges, attendance, tasks>>

\* a table keyed by username, with no rows
NoRows == [x \in {} |-> 0]

\* database.py:32-41, main.py:716-718  the workers that serve requests side
\* by side, each request with a database session of its own
Workers == {1, 2}
\* a worker between two requests
Idle == [pc |-> "idle", username |-> "", pin |-> NoPin, audio |-> NoAudio,
         none_open |-> FALSE]

Init ==
    /\ users = NoRows
    /\ pending = NoRows
    /\ challenges = <<>>
    /\ attendance = <<>>
    /\ tasks = <<>>
    /\ tokens = NoRows
    /\ now = StartTime
    /\ dbOffset \in DbOffsets
    /\ login_attempts = <<>>
    /\ uploads = {}
    /\ workers = [w \in Workers |-> Idle]
    /\ disk = NoRows
    /\ last = [op |-> "none", username |-> "", pin |-> NoPin, audio |-> NoAudio,
               files |-> <<>>, status |-> 0, detail |-> ""]
    /\ guard = NoRows

\* f with key k set to v (a row inserted or replaced under a unique key)
Put(f, k, v) == [x \in DOMAIN f \cup {k} |-> IF x = k THEN v ELSE f[x]]
\* f without key k
Drop(f, k) == [x \in DOMAIN f \ {k} |-> f[x]]

Response(op, u, pin, audio, status, detail) ==
    [op |-> op, username |-> u, pin |-> pin, audio |-> audio, files |-> <<>>,
     status |-> status, detail |-> detail]

\* models.py:6-25  a new User row; the columns a handler does not set take
\* their defaults
NewUser(u, hash, blob, role) ==
    [id |-> Cardinality(DOMAIN users) + 1, username |-> u, password_hash |-> hash,
     voiceprint |-> blob, role |-> role, failed_attempts |-> 0,
     locked_until |-> NoTime, last_login |-> NoTime]

\* ------------------------------------------------------------ main.py

\* main.py:36-37
JWT_SECRET == "dev_secret"
JWT_ALGORITHM == "HS256"

\* main.py:69-75  create_access_token (PyJWT keeps whole seconds of exp).
\* A token is its claims (sub, role, exp), the alg of its header, and its
\* signature: the key it was made with and the claims it was made over.
\* iat is history, the instant of issue; the code puts no such claim in.
CreateAccessToken(username, role) ==
    LET exp == ((now + TOKEN_TTL) \div MsPerSecond) * MsPerSecond
    IN  [sub |-> username, role |-> role, exp |-> exp, iat |-> now,
         alg |-> JWT_ALGORITHM, key |-> JWT_SECRET, signed |-> <<username, role, exp>>]

\* the gates without the anti-spoof stage
VoiceGatesSkipSpoof(a, voiceprint, mismatch) ==
    LET q == CheckAudioQuality(a)
        clean == LoadAndEnhanceAudio(a)
        score == CompareFaces(GetVoiceEmbedding(clean), DecryptVoiceprint(voiceprint))
    IN  IF ~q.is_valid THEN [status |-> 400, detail |-> "Audio quality issue"]
        ELSE IF clean = NoEmb THEN [status |-> 400, detail |-> "Audio processing failed"]
        ELSE IF ScoreBelowThreshold(score) THEN [status |-> 401, detail |-> mismatch]
        ELSE [status |-> 200, detail |-> "ok"]

\* main.py:400-427 and 642-669: the gates an uploaded sample passes before
\* a login or a clock-out goes on; status 200 when all passed.
VoiceGates(a, voiceprint, mismatch) ==
    LET q == CheckAudioQuality(a)
        clean == LoadAndEnhanceAudio(a)
        sp == CheckSpoofing(a, q.is_loud)
        score == CompareFaces(GetVoiceEmbedding(clean), DecryptVoiceprint(voiceprint))
    IN  IF ~q.is_valid THEN [status |-> 400, detail |-> "Audio quality issue"]
        ELSE IF clean = NoEmb THEN [status |-> 400, detail |-> "Audio processing failed"]
        ELSE IF ~sp.is_real /\ q.is_loud /\ sp.label = "QUALITY_ISSUE"
             THEN [status |-> 400, detail |-> "Audio is too loud or distorted"]
        ELSE IF ~sp.is_real THEN [status |-> 403, detail |-> "Spoof detected"]
        ELSE IF ScoreBelowThreshold(score) THEN [status |-> 401, detail |-> mismatch]
        ELSE [status |-> 200, detail |-> "ok"]

\* models.py:44, 56  server_default / default = func.now()
FuncNow == now + dbOffset

\* the unknown username told apart from the wrong PIN
GetChallengeOutcomeUserNotFound(us, u, pin) ==
    IF u \notin DOMAIN us
    THEN [status |-> 404, detail |-> "User not found"]
    ELSE IF ~VerifyPin(pin, us[u].password_hash)
    THEN [status |-> 401, detail |-> "Invalid credentials"]
    ELSE [status |-> 200, detail |-> "challenge"]

\* the PIN not looked at
GetChallengeOutcomeNoPin(us, u, pin) ==
    IF u \notin DOMAIN us
    THEN [status |-> 401, detail |-> "Invalid credentials"]
    ELSE [status |-> 200, detail |-> "challenge"]

\* main.py:99-109  what get_challenge answers on the users table us
GetChallengeOutcome(us, u, pin) ==
    IF u \notin DOMAIN us
    THEN [status |-> 401, detail |-> "Invalid credentials"]
    ELSE IF ~VerifyPin(pin, us[u].password_hash)
    THEN [status |-> 401, detail |-> "Invalid credentials"]
    ELSE [status |-> 200, detail |-> "challenge"]

\* main.py:92-121
GetChallenge(u, pin) ==
    IF GetChallengeOutcome(users, u, pin).status # 200
    THEN /\ last' = Response("get_challenge", u, pin, NoAudio,
                        GetChallengeOutcome(users, u, pin).status,
                        GetChallengeOutcome(users, u, pin).detail)
         /\ UNCHANGED <<tables, tokens, now, dbOffset, login_attempts, workers, disk, uploads>>
    ELSE /\ Len(challenges) < MaxChallenges
         /\ challenges' = Append(challenges,
                [username |-> u, created_at |-> FuncNow,
                 expires_at |-> now + CHALLENGE_TTL, used |-> FALSE])
         /\ last' = Response("get_challenge", u, pin, NoAudio, 200, "challenge")
         /\ UNCHANGED <<users, pending, attendance, tasks, tokens, now, dbOffset, login_attempts, workers, disk, uploads>>

\* main.py:431-435  the open attendance rows of a user dated `day`
OpenToday(user_id, day) ==
    { i \in 1..Len(attendance) :
        /\ attendance[i].user_id = user_id
        /\ DateOf(attendance[i].date) = day
        /\ attendance[i].clock_out = NoTime }

\* main.py:381-427  what login answers on the users table us
LoginOutcome(us, u, pin, a) ==
    IF u \notin DOMAIN us
    THEN [status |-> 401, detail |-> "Invalid credentials"]
    ELSE IF ~VerifyPin(pin, us[u].password_hash)
    THEN [status |-> 401, detail |-> "Invalid credentials"]
    ELSE VoiceGates(a, us[u].voiceprint, "Voice mismatch")

\* main.py:369-460  (uploads/login_{username}.webm, written at 394-396, is
\* removed by the finally at 459-460 on every way out; no LoginAttempt row
\* is added on any of them)
Login(u, pin, a) ==
    LET g == LoginOutcome(users, u, pin, a)
    IN  IF g.status # 200
        THEN /\ last' = Response("login", u, pin, a, g.status, g.detail)
             /\ UNCHANGED <<tables, tokens, now, dbOffset, login_attempts, workers, disk, uploads>>
        ELSE LET user == users[u]
             IN   /\ IF OpenToday(user.id, DateOf(now)) = {}
                     THEN /\ Len(attendance) < MaxAttendance
                          /\ attendance' = Append(attendance,
                                 [user_id |-> user.id, username |-> user.username,
                                  date |-> FuncNow, clock_in |-> now, clock_out |-> NoTime,
                                  status |-> "Working", fine_amount |-> 0])
                     ELSE UNCHANGED attendance
                  /\ tokens' = Put(tokens, u, CreateAccessToken(user.username, user.role))
                  /\ last' = Response("login", u, pin, a, 200, "success")
                  /\ UNCHANGED <<users, pending, challenges, tasks, now, dbOffset, login_attempts, workers, disk, uploads>>

\* main.py:394  temp = f"uploads/login_{username}.webm"
LoginTemp(u) == <<"login", u>>
\* what the audio capabilities find at a path: the file's content, or
\* nothing they can open
ReadTemp(name) == IF name \in DOMAIN disk THEN disk[name] ELSE AudioUnreadable

\* login_user taken statement by statement, on worker w.
\* main.py:381-396  the credentials are checked and the upload is written
\* to the path made from the username
LoginReceive(w, u, pin, a) ==
    /\ workers[w].pc = "idle"
    /\ IF u \notin DOMAIN users \/ ~VerifyPin(pin, users[u].password_hash)
       THEN /\ last' = Response("login", u, pin, a, 401, "Invalid credentials")
            /\ UNCHANGED <<workers, disk>>
       ELSE /\ workers' = [workers EXCEPT ![w] =
                   [pc |-> "gates", username |-> u, pin |-> pin, audio |-> a,
                    none_open |-> FALSE]]
            /\ disk' = Put(disk, LoginTemp(u), a)
            /\ UNCHANGED last
    /\ UNCHANGED <<tables, tokens, now, dbOffset, login_attempts, uploads>>

\* main.py:398-427, 459-460  the gates run on what the path holds now; a
\* rejection is answered and the finally removes the file if it is there
LoginGates(w) ==
    /\ workers[w].pc = "gates"
    /\ LET u == workers[w].username
           g == VoiceGates(ReadTemp(LoginTemp(u)), users[u].voiceprint, "Voice mismatch")
       IN  IF g.status # 200
           THEN /\ last' = Response("login", u, workers[w].pin, workers[w].audio,
                               g.status, g.detail)
                /\ disk' = Drop(disk, LoginTemp(u))
                /\ workers' = [workers EXCEPT ![w] = Idle]
           ELSE /\ workers' = [workers EXCEPT ![w].pc = "clock_in"]
                /\ UNCHANGED <<disk, last>>
    /\ UNCHANGED <<tables, tokens, now, dbOffset, login_attempts, uploads>>

\* main.py:430-435  the query for an open row of today
LoginQuery(w) ==
    /\ workers[w].pc = "clock_in"
    /\ workers' = [workers EXCEPT
           ![w].pc = "insert",
           ![w].none_open = OpenToday(users[workers[w].username].id, DateOf(now)) = {}]
    /\ UNCHANGED <<tables, tokens, now, dbOffset, login_attempts, uploads, disk, last>>

\* main.py:437-460  the row is added if the query found none, the token is
\* issued, and the finally removes the file if it is there
LoginCommit(w) ==
    /\ workers[w].pc = "insert"
    /\ LET user == users[workers[w].username]
       IN  /\ IF workers[w].none_open
              THEN /\ Len(attendance) < MaxAttendance
                   /\ attendance' = Append(attendance,
                          [user_id |-> user.id, username |-> user.username,
                           date |-> FuncNow, clock_in |-> now, clock_out |-> NoTime,
                           status |-> "Working", fine_amount |-> 0])
              ELSE UNCHANGED attendance
           /\ tokens' = Put(tokens, user.username,
                            CreateAccessToken(user.username, user.role))
           /\ last' = Response("login", user.username, workers[w].pin,
                          workers[w].audio, 200, "success")
           /\ disk' = Drop(disk, LoginTemp(user.username))
           /\ workers' = [workers EXCEPT ![w] = Idle]
    /\ UNCHANGED <<users, pending, challenges, tasks, now, dbOffset, login_attempts, uploads>>

\* main.py:125-128  what check_username answers on the users table us
CheckUsernameOutcome(us, u) ==
    IF u \in DOMAIN us
    THEN [status |-> 409, detail |-> "Username already taken"]
    ELSE [status |-> 200, detail |-> "available"]

\* main.py:123-128
CheckUsername(u) ==
    /\ last' = Response("check_username", u, NoPin, NoAudio,
                   CheckUsernameOutcome(users, u).status,
                   CheckUsernameOutcome(users, u).detail)
    /\ UNCHANGED <<tables, tokens, now, dbOffset, login_attempts, workers, disk, uploads>>

\* main.py:130-159  (an out-of-range PIN makes hash_pin raise after the
\* old pending row was deleted and committed: a 500)
RegisterInitOutcome(us, u, pin) ==
    IF u \in DOMAIN us
    THEN [status |-> 400, detail |-> "Username already exists"]
    ELSE IF ~HashPinAccepts(pin)
    THEN [status |-> 500, detail |-> "Internal Server Error"]
    ELSE [status |-> 200, detail |-> "Registration initialized"]

RegisterInit(u, pin, role) ==
    IF RegisterInitOutcome(users, u, pin).status = 400
    THEN /\ last' = Response("register_init", u, pin, NoAudio, 400, "Username already exists")
         /\ UNCHANGED <<tables, tokens, now, dbOffset, login_attempts, workers, disk, uploads>>
    ELSE IF RegisterInitOutcome(users, u, pin).status = 500
    THEN /\ pending' = Drop(pending, u)
         /\ last' = Response("register_init", u, pin, NoAudio, 500, "Internal Server Error")
         /\ UNCHANGED <<users, challenges, attendance, tasks, tokens, now, dbOffset, login_attempts, workers, disk, uploads>>
    ELSE /\ pending' = Put(pending, u,
                [username |-> u, password_hash |-> HashPin(pin), role |-> role,
                 samples |-> <<NoBlob, NoBlob, NoBlob>>,
                 expires_at |-> now + PENDING_TTL])
         /\ last' = Response("register_init", u, pin, NoAudio, 200, "Registration initialized")
         /\ UNCHANGED <<users, challenges, attendance, tasks, tokens, now, dbOffset, login_attempts, workers, disk, uploads>>

\* main.py:194-213 and 321-340: the gates a registration sample passes
\* before its embedding is taken
SampleGates(a) ==
    LET q == CheckAudioQuality(a)
        clean == LoadAndEnhanceAudio(a)
        sp == CheckSpoofing(a, q.is_loud)
    IN  IF ~q.is_valid THEN [status |-> 400, detail |-> "Sample rejected"]
        ELSE IF clean = NoEmb THEN [status |-> 400, detail |-> "Audio processing failed"]
        ELSE IF ~sp.is_real /\ q.is_loud /\ sp.label = "QUALITY_ISSUE"
             THEN [status |-> 400, detail |-> "Audio is too loud or distorted"]
        ELSE IF ~sp.is_real
             THEN [status |-> 400, detail |-> "Registration rejected. Synthetic audio detected."]
        ELSE [status |-> 200, detail |-> "ok"]

\* a pending enrollment that never expires
PendingNeverExpired(p) == FALSE
\* main.py:180, 256  datetime.utcnow() > pending.expires_at
PendingExpired(p) == now > p.expires_at

\* main.py:188  temp = f"uploads/pending_{username}_sample_{sample_index}.webm"
PendingTemp(u, sample_index) == <<"pending", u, sample_index>>

\* main.py:161-240  (the file is written at 191-192; a gate's HTTPException
\* is re-raised at 233-234 with the file left in place, an accepted sample's
\* file is removed at 226)
RegisterUploadSample(u, sample_index, a) ==
    IF u \notin DOMAIN pending
    THEN /\ last' = Response("upload_sample", u, NoPin, a, 404, "Registration session not found")
         /\ UNCHANGED <<tables, tokens, now, dbOffset, login_attempts, workers, disk, uploads>>
    ELSE IF PendingExpired(pending[u])
    THEN /\ pending' = Drop(pending, u)
         /\ last' = Response("upload_sample", u, NoPin, a, 410, "Registration session expired")
         /\ UNCHANGED <<users, challenges, attendance, tasks, tokens, now, dbOffset, login_attempts, workers, disk, uploads>>
    ELSE IF sample_index \notin {0, 1, 2}
    THEN /\ last' = Response("upload_sample", u, NoPin, a, 400, "Invalid sample index")
         /\ UNCHANGED <<tables, tokens, now, dbOffset, login_attempts, workers, disk, uploads>>
    ELSE LET g == SampleGates(a)
             blob == EncryptVoiceprint(GetVoiceEmbedding(LoadAndEnhanceAudio(a)))
         IN  IF g.status # 200
             THEN /\ uploads' = uploads \cup {PendingTemp(u, sample_index)}
                  /\ last' = Response("upload_sample", u, NoPin, a, g.status, g.detail)
                  /\ UNCHANGED <<tables, tokens, now, dbOffset, login_attempts, workers, disk>>
             ELSE /\ pending' = [pending EXCEPT ![u].samples[sample_index + 1] = blob]
                  /\ uploads' = uploads \ {PendingTemp(u, sample_index)}
                  /\ last' = Response("upload_sample", u, NoPin, a, 200, "Sample uploaded")
                  /\ UNCHANGED <<users, challenges, attendance, tasks, tokens, now, dbOffset,
                                 login_attempts, workers, disk>>

\* two uploaded samples taken as enough
TwoSamplesUploaded(p) ==
    Cardinality({ i \in 1..3 : p.samples[i] # NoBlob }) >= 2
\* main.py:261  all([sample_1_embedding, sample_2_embedding, sample_3_embedding])
AllSamplesUploaded(p) == \A i \in 1..3 : p.samples[i] # NoBlob

\* main.py:242-291  (np.mean raises on a sample that did not decrypt, and
\* the users.username unique key makes the commit fail when the username
\* was registered meanwhile: both are answered 500 and nothing is committed)
RegisterFinalize(u) ==
    IF u \notin DOMAIN pending
    THEN /\ last' = Response("finalize", u, NoPin, NoAudio, 404, "Registration session not found")
         /\ UNCHANGED <<tables, tokens, now, dbOffset, login_attempts, workers, disk, uploads>>
    ELSE IF PendingExpired(pending[u])
    THEN /\ pending' = Drop(pending, u)
         /\ last' = Response("finalize", u, NoPin, NoAudio, 410, "Registration session expired")
         /\ UNCHANGED <<users, challenges, attendance, tasks, tokens, now, dbOffset, login_attempts, workers, disk, uploads>>
    ELSE IF ~AllSamplesUploaded(pending[u])
    THEN /\ last' = Response("finalize", u, NoPin, NoAudio, 400, "All 3 samples must be uploaded")
         /\ UNCHANGED <<tables, tokens, now, dbOffset, login_attempts, workers, disk, uploads>>
    ELSE IF \E i \in 1..3 : DecryptVoiceprint(pending[u].samples[i]) = NoEmb
    THEN /\ last' = Response("finalize", u, NoPin, NoAudio, 500, "TypeError")
         /\ UNCHANGED <<tables, tokens, now, dbOffset, login_attempts, workers, disk, uploads>>
    ELSE IF u \in DOMAIN users
    THEN /\ last' = Response("finalize", u, NoPin, NoAudio, 500, "IntegrityError")
         /\ UNCHANGED <<tables, tokens, now, dbOffset, login_attempts, workers, disk, uploads>>
    ELSE LET p == pending[u]
             avg_emb == MeanEmb([i \in 1..3 |-> DecryptVoiceprint(p.samples[i])])
         IN  /\ users' = Put(users, u,
                    NewUser(u, p.password_hash, EncryptVoiceprint(avg_emb), p.role))
             /\ pending' = Drop(pending, u)
             /\ last' = Response("finalize", u, NoPin, NoAudio, 200, "Registration completed")
             /\ UNCHANGED <<challenges, attendance, tasks, tokens, now, dbOffset, login_attempts, workers, disk, uploads>>

\* main.py:312-343  the index of the first file a gate rejects, 0 if none
FirstRejected(files) ==
    IF \A i \in 1..Len(files) : SampleGates(files[i]).status = 200 THEN 0
    ELSE CHOOSE i \in 1..Len(files) :
            /\ SampleGates(files[i]).status # 200
            /\ \A j \in 1..(i - 1) : SampleGates(files[j]).status = 200

\* only the first file gated
RegisterOutcomeFirstSampleOnly(us, u, pin, files) ==
    IF u \in DOMAIN us
    THEN [status |-> 400, detail |-> "Username exists"]
    ELSE IF SampleGates(files[1]).status # 200
    THEN [status |-> 500, detail |-> SampleGates(files[1]).detail]
    ELSE IF ~HashPinAccepts(pin)
    THEN [status |-> 500, detail |-> "PIN must be 4-12 characters"]
    ELSE [status |-> 200, detail |-> "User registered"]

\* main.py:293-367  (every error raised inside the try block, the gates'
\* HTTPException(400) included, is answered as a 500; the file of an accepted
\* sample is removed at 343 and that of a rejected one at 365-366)
RegisterOutcome(us, u, pin, files) ==
    IF u \in DOMAIN us
    THEN [status |-> 400, detail |-> "Username exists"]
    ELSE IF FirstRejected(files) # 0
    THEN [status |-> 500, detail |-> SampleGates(files[FirstRejected(files)]).detail]
    ELSE IF ~HashPinAccepts(pin)
    THEN [status |-> 500, detail |-> "PIN must be 4-12 characters"]
    ELSE [status |-> 200, detail |-> "User registered"]

Register(u, pin, role, files) ==
    IF RegisterOutcome(users, u, pin, files).status # 200
    THEN /\ last' = [Response("register", u, pin, NoAudio,
                         RegisterOutcome(users, u, pin, files).status,
                         RegisterOutcome(users, u, pin, files).detail)
                         EXCEPT !.files = files]
         /\ UNCHANGED <<tables, tokens, now, dbOffset, login_attempts, workers, disk, uploads>>
    ELSE LET embeddings == [i \in 1..Len(files) |->
                               GetVoiceEmbedding(LoadAndEnhanceAudio(files[i]))]
             enc_blob == EncryptVoiceprint(MeanEmb(embeddings))
         IN  /\ users' = Put(users, u, NewUser(u, HashPin(pin), enc_blob, role))
             /\ last' = [Response("register", u, pin, NoAudio, 200, "User registered")
                             EXCEPT !.files = files]
             /\ UNCHANGED <<pending, challenges, attendance, tasks, tokens, now, dbOffset, login_attempts, workers, disk, uploads>>

\* create_admin.py:8-29
PromoteUserToAdmin(u) ==
    /\ u \in DOMAIN users
    /\ users[u].role # "admin"
    /\ users' = [users EXCEPT ![u].role = "admin"]
    /\ UNCHANGED <<pending, challenges, attendance, tasks, tokens, now, dbOffset, login_attempts, workers, disk, uploads, last>>

\* utils.py:473-483  the stored blob stops authenticating (the AES key was
\* replaced, or the row was damaged): from then on decrypt_voiceprint
\* takes its except branch
CorruptVoiceprint(u) ==
    /\ u \in DOMAIN users
    /\ users[u].voiceprint.tag = "ok"
    /\ users' = [users EXCEPT ![u].voiceprint.tag = "bad"]
    /\ UNCHANGED <<pending, challenges, attendance, tasks, tokens, now, dbOffset, login_attempts, workers, disk, uploads, last>>

\* the algorithm read from the token's header: an unsigned token passes
JwtDecodeUnpinned(tok) ==
    /\ \/ tok.alg = "none"
       \/ tok.key = JWT_SECRET /\ tok.signed = <<tok.sub, tok.role, tok.exp>>
    /\ now < tok.exp

\* main.py:79  jwt.decode(token, JWT_SECRET, algorithms=[JWT_ALGORITHM]): the
\* header's alg is the pinned one, the signature is that of the claims
\* under JWT_SECRET, and exp is still ahead (PyJWT rejects from exp on)
JwtDecode(tok) ==
    /\ tok.alg = JWT_ALGORITHM
    /\ tok.key = JWT_SECRET /\ tok.signed = <<tok.sub, tok.role, tok.exp>>
    /\ now < tok.exp

\* main.py:77-84  get_current_user: the token decodes and its subject is a
\* stored user
TokenValid(tok) == JwtDecode(tok) /\ tok.sub \in DOMAIN users

\* main.py:77  the bearer string is whatever the client sends. What a client
\* can make of a token it was issued without the server's key: the claims
\* altered under the old signature, the token signed anew under a key of its
\* own, the header's alg changed.
Forgeries(tok) ==
    { [tok EXCEPT !.role = "admin"],
      [tok EXCEPT !.exp = tok.exp + TOKEN_TTL],
      [tok EXCEPT !.key = "other_secret"],
      [tok EXCEPT !.exp = tok.exp + TOKEN_TTL, !.key = "other_secret",
                  !.signed = <<tok.sub, tok.role, tok.exp + TOKEN_TTL>>],
      [tok EXCEPT !.alg = "none", !.key = "", !.signed = <<>>],
      [tok EXCEPT !.alg = "HS512"] } \ {tok}

\* The client c replaces the token it was issued by a forgery of it.
TamperToken(c) ==
    /\ c \in DOMAIN tokens
    /\ tokens[c] = [tokens[c] EXCEPT !.alg = JWT_ALGORITHM, !.key = JWT_SECRET,
                        !.signed = <<tokens[c].sub, tokens[c].role, tokens[c].exp>>]
    /\ \E f \in Forgeries(tokens[c]) : tokens' = [tokens EXCEPT ![c] = f]
    /\ UNCHANGED <<tables, now, dbOffset, login_attempts, workers, disk, uploads, last>>

\* round(x, 2) of the quotient n / d of two naturals: to the nearest, a tie
\* to the even neighbour
RoundHalfEven(n, d) ==
    LET q == n \div d
        r == n % d
    IN  IF 2 * r < d THEN q
        ELSE IF 2 * r > d THEN q + 1
        ELSE IF q % 2 = 0 THEN q ELSE q + 1

\* main.py:675-678  count of the user's tasks with is_completed == False
PendingTasks(user_id) ==
    Cardinality({ i \in 1..Len(tasks) :
                    tasks[i].user_id = user_id /\ ~tasks[i].is_completed })

\* the cutoff instant itself taken as early
ClockOutResultLate(t, pending_tasks) ==
    LET today_5pm == ReplaceHour(t, WORK_END_HOUR)
        is_early == t <= today_5pm
    IN  IF ~is_early
        THEN [status |-> "Shift Completed (On Time)", fine |-> 0]
        ELSE IF pending_tasks = 0
        THEN [status |-> "Left Early (Authorized - Work Done)", fine |-> 0]
        ELSE [status |-> "Left Early (Fined)",
              fine |-> RoundHalfEven(today_5pm - t, MsPerHour \div FINE_PER_HOUR_REMAINING)]

\* the fine cut to whole cents in the place of rounded
ClockOutResultTruncated(t, pending_tasks) ==
    LET today_5pm == ReplaceHour(t, WORK_END_HOUR)
        is_early == t < today_5pm
    IN  IF ~is_early
        THEN [status |-> "Shift Completed (On Time)", fine |-> 0]
        ELSE IF pending_tasks = 0
        THEN [status |-> "Left Early (Authorized - Work Done)", fine |-> 0]
        ELSE [status |-> "Left Early (Fined)",
              fine |-> (today_5pm - t) \div (MsPerHour \div FINE_PER_HOUR_REMAINING)]

\* the fine charged on an early leave with no task pending too
ClockOutResultFineAlways(t, pending_tasks) ==
    LET today_5pm == ReplaceHour(t, WORK_END_HOUR)
        is_early == t < today_5pm
    IN  IF ~is_early
        THEN [status |-> "Shift Completed (On Time)", fine |-> 0]
        ELSE [status |-> IF pending_tasks = 0
                         THEN "Left Early (Authorized - Work Done)"
                         ELSE "Left Early (Fined)",
              fine |-> RoundHalfEven(today_5pm - t, MsPerHour \div FINE_PER_HOUR_REMAINING)]

\* main.py:680-696  status and fine (cents) of a clock-out at instant t.
\* hours_remaining * FINE_PER_HOUR_REMAINING is remaining_ms * 5000 / 3600000,
\* taken as remaining_ms / (MsPerHour / FINE_PER_HOUR_REMAINING).
ClockOutResult(t, pending_tasks) ==
    LET today_5pm == ReplaceHour(t, WORK_END_HOUR)
        is_early == t < today_5pm
    IN  IF ~is_early
        THEN [status |-> "Shift Completed (On Time)", fine |-> 0]
        ELSE IF pending_tasks = 0
        THEN [status |-> "Left Early (Authorized - Work Done)", fine |-> 0]
        ELSE [status |-> "Left Early (Fined)",
              fine |-> RoundHalfEven(today_5pm - t, MsPerHour \div FINE_PER_HOUR_REMAINING)]

\* the estimate cut to whole cents in the place of rounded
CheckPendingTasksResultTruncated(t, pending_count) ==
    LET today_5pm == ReplaceHour(t, WORK_END_HOUR)
        is_early == t < today_5pm
        will_be_fined == is_early /\ pending_count > 0
    IN  [pending_tasks |-> pending_count,
         is_early_departure |-> is_early,
         will_be_fined |-> will_be_fined,
         estimated_fine |->
             IF will_be_fined
             THEN (today_5pm - t) \div (MsPerHour \div FINE_PER_HOUR_REMAINING)
             ELSE 0]

\* main.py:588-611  what check_pending_tasks answers at instant t
\* (estimated_fine in cents)
CheckPendingTasksResult(t, pending_count) ==
    LET today_5pm == ReplaceHour(t, WORK_END_HOUR)
        is_early == t < today_5pm
        will_be_fined == is_early /\ pending_count > 0
    IN  [pending_tasks |-> pending_count,
         is_early_departure |-> is_early,
         will_be_fined |-> will_be_fined,
         estimated_fine |->
             IF will_be_fined
             THEN RoundHalfEven(today_5pm - t, MsPerHour \div FINE_PER_HOUR_REMAINING)
             ELSE 0]

\* main.py:585-611  c is the client whose token authorises the call; the
\* answer's message is kept as the detail
CheckPendingTasks(c) ==
    /\ c \in DOMAIN tokens
    /\ last' = IF ~TokenValid(tokens[c])
               THEN Response("check_pending_tasks", c, NoPin, NoAudio, 401, "Invalid token")
               ELSE Response("check_pending_tasks", c, NoPin, NoAudio, 200,
                        IF CheckPendingTasksResult(now,
                               PendingTasks(users[tokens[c].sub].id)).pending_tasks > 0
                        THEN "You have pending task(s)" ELSE "All tasks completed")
    /\ UNCHANGED <<tables, tokens, now, dbOffset, login_attempts, workers, disk, uploads>>

\* the user's rows, closed ones included
OpenRowsClosedToo(user_id) ==
    { i \in 1..Len(attendance) : attendance[i].user_id = user_id }
\* main.py:625-628  the user's open attendance rows, whatever their date
OpenRows(user_id) ==
    { i \in 1..Len(attendance) :
        attendance[i].user_id = user_id /\ attendance[i].clock_out = NoTime }
\* .order_by(clock_in.desc()).first()
LatestOpen(user_id) ==
    CHOOSE i \in OpenRows(user_id) :
        \A j \in OpenRows(user_id) :
            \/ attendance[j].clock_in < attendance[i].clock_in
            \/ (attendance[j].clock_in = attendance[i].clock_in /\ j >= i)

\* main.py:613-714  c is the client whose token authorises the call
\* (uploads/clockout_{username}.webm, written at 636-638, is removed by the
\* finally at 712-714 on every way out)
ClockOut(c, a) ==
    /\ c \in DOMAIN tokens
    /\ IF ~TokenValid(tokens[c])
       THEN /\ last' = Response("clock_out", c, NoPin, a, 401, "Invalid token")
            /\ UNCHANGED <<tables, tokens, now, dbOffset, login_attempts, workers, disk, uploads>>
       ELSE LET user == users[tokens[c].sub]
                g == VoiceGates(a, user.voiceprint, "Voice verification failed for clock out")
            IN  IF OpenRows(user.id) = {}
                THEN /\ last' = Response("clock_out", c, NoPin, a, 200, "You are not clocked in.")
                     /\ UNCHANGED <<tables, tokens, now, dbOffset, login_attempts, workers, disk, uploads>>
                ELSE IF g.status # 200
                THEN /\ last' = Response("clock_out", c, NoPin, a, g.status, g.detail)
                     /\ UNCHANGED <<tables, tokens, now, dbOffset, login_attempts, workers, disk, uploads>>
                ELSE LET r == ClockOutResult(now, PendingTasks(user.id))
                     IN  /\ attendance' = [attendance EXCEPT
                                ![LatestOpen(user.id)].clock_out = now,
                                ![LatestOpen(user.id)].status = r.status,
                                ![LatestOpen(user.id)].fine_amount = r.fine]
                         /\ last' = Response("clock_out", c, NoPin, a, 200, r.status)
                         /\ UNCHANGED <<users, pending, challenges, tasks, tokens, now, dbOffset, login_attempts, workers, disk, uploads>>

\* every caller taken for an admin
GetCurrentAdminAnyUser(tok) == TRUE
\* main.py:86-88  get_current_admin: the role stored for the token's subject
GetCurrentAdmin(tok) == users[tok.sub].role = "admin"

\* main.py:463-470, 487-558  the admin's read-only endpoints
AdminReads == {"admin_users", "admin_all_tasks", "admin_all_attendance", "admin_dashboard_stats"}
AdminRead(c, op) ==
    /\ c \in DOMAIN tokens
    /\ last' = IF ~TokenValid(tokens[c])
               THEN Response(op, c, NoPin, NoAudio, 401, "Invalid token")
               ELSE IF ~GetCurrentAdmin(tokens[c])
               THEN Response(op, c, NoPin, NoAudio, 403, "Admin privileges required")
               ELSE Response(op, c, NoPin, NoAudio, 200, "ok")
    /\ UNCHANGED <<tables, tokens, now, dbOffset, login_attempts, workers, disk, uploads>>

\* main.py:86-88, 472-485  c is the client whose token authorises the call
AssignTask(c, assigned_to_username) ==
    /\ c \in DOMAIN tokens
    /\ IF ~TokenValid(tokens[c])
       THEN /\ last' = Response("assign_task", c, NoPin, NoAudio, 401, "Invalid token")
            /\ UNCHANGED <<tables, tokens, now, dbOffset, login_attempts, workers, disk, uploads>>
       ELSE IF ~GetCurrentAdmin(tokens[c])
       THEN /\ last' = Response("assign_task", c, NoPin, NoAudio, 403, "Admin privileges required")
            /\ UNCHANGED <<tables, tokens, now, dbOffset, login_attempts, workers, disk, uploads>>
       ELSE IF assigned_to_username \notin DOMAIN users
       THEN /\ last' = Response("assign_task", c, NoPin, NoAudio, 404, "Employee not found")
            /\ UNCHANGED <<tables, tokens, now, dbOffset, login_attempts, workers, disk, uploads>>
       ELSE /\ Len(tasks) < MaxTasks
            /\ tasks' = Append(tasks,
                   [id |-> Len(tasks) + 1, user_id |-> users[assigned_to_username].id,
                    assigned_at |-> now, is_completed |-> FALSE, completed_at |-> NoTime])
            /\ last' = Response("assign_task", c, NoPin, NoAudio, 200, "Task assigned")
            /\ UNCHANGED <<users, pending, challenges, attendance, tokens, now, dbOffset, login_attempts, workers, disk, uploads>>

\* the task looked up by its id alone
AnyTask(task_id, user_id) ==
    \E i \in 1..Len(tasks) : tasks[i].id = task_id
\* main.py:576  filter(Task.id == task_id, Task.user_id == user.id)
OwnTask(task_id, user_id) ==
    \E i \in 1..Len(tasks) : tasks[i].id = task_id /\ tasks[i].user_id = user_id

\* main.py:574-582
CompleteTask(c, task_id) ==
    /\ c \in DOMAIN tokens
    /\ IF ~TokenValid(tokens[c])
       THEN /\ last' = Response("complete_task", c, NoPin, NoAudio, 401, "Invalid token")
            /\ UNCHANGED <<tables, tokens, now, dbOffset, login_attempts, workers, disk, uploads>>
       ELSE IF ~OwnTask(task_id, users[tokens[c].sub].id)
       THEN /\ last' = Response("complete_task", c, NoPin, NoAudio, 404, "Task not found")
            /\ UNCHANGED <<tables, tokens, now, dbOffset, login_attempts, workers, disk, uploads>>
       ELSE /\ tasks' = [i \in 1..Len(tasks) |->
                            IF tasks[i].id = task_id
                            THEN [tasks[i] EXCEPT !.is_completed = TRUE, !.completed_at = now]
                            ELSE tasks[i]]
            /\ last' = Response("complete_task", c, NoPin, NoAudio, 200, "Task marked complete")
            /\ UNCHANGED <<users, pending, challenges, attendance, tokens, now, dbOffset, login_attempts, workers, disk, uploads>>

\* The wall clock moves on to a later instant.
Tick(Ts) ==
    /\ \E t \in Ts : t > now /\ now' = t
    /\ UNCHANGED <<tables, tokens, last, dbOffset, login_attempts, workers, disk, uploads>>

\* ------------------------------------------------- the lockout of spec 4.4

\* spec 4.4: max_attempts (default 5), lockout_duration (default 15 min)
MaxAttempts == 5
LOCKOUT_DURATION == 15 * MsPerMinute

Unlocked0 == [n |-> 0, until |-> NoTime]
GuardOf(u) == IF u \in DOMAIN guard THEN guard[u] ELSE Unlocked0
\* Locked(until), at the instant t
LockedAt(u, t) == GuardOf(u).until # NoTime /\ t < GuardOf(u).until

\* The state machine of spec 4.4, fed with what the handlers answered: a
\* rejected PIN counts, a success resets, an attempt on a locked identity
\* counts nothing, a lock that ran out is reset by the next attempt.
GuardStep(l) ==
    IF l.op \notin {"get_challenge", "login"} \/ l.username \notin DOMAIN users
    THEN guard
    ELSE LET u == l.username
             g == IF GuardOf(u).until # NoTime /\ now >= GuardOf(u).until
                  THEN Unlocked0 ELSE GuardOf(u)
         IN  IF LockedAt(u, now) THEN guard
             ELSE IF l.status = 401 /\ l.detail = "Invalid credentials"
             THEN Put(guard, u,
                      IF g.n + 1 >= MaxAttempts
                      THEN [n |-> g.n + 1, until |-> now + LOCKOUT_DURATION]
                      ELSE [n |-> g.n + 1, until |-> NoTime])
             ELSE IF l.status = 200 THEN Put(guard, u, Unlocked0)
             ELSE Put(guard, u, g)

\* ------------------------------------------------------ specifications

\* Every request of the API, with its inputs drawn from the given sets.
Request(Us, Ps, Rs, Fs, As) ==
    \/ \E u \in Us, p \in Ps : GetChallenge(u, p)
    \/ \E u \in Us, p \in Ps, a \in As : Login(u, p, a)
    \/ \E u \in Us : CheckUsername(u)
    \/ \E u \in Us, p \in Ps, r \in Rs : RegisterInit(u, p, r)
    \/ \E u \in Us, i \in 0..3, a \in As : RegisterUploadSample(u, i, a)
    \/ \E u \in Us : RegisterFinalize(u)
    \/ \E u \in Us, p \in Ps, r \in Rs, f \in Fs : Register(u, p, r, f)
    \/ \E c \in Us, a \in As : ClockOut(c, a)
    \/ \E c \in Us, u \in Us : AssignTask(c, u)
    \/ \E c \in Us, i \in 1..MaxTasks : CompleteTask(c, i)
    \/ \E c \in Us : CheckPendingTasks(c)
    \/ \E c \in Us, op \in AdminReads : AdminRead(c, op)

Next ==
    \/ Request(Usernames, Pins, Roles, EnrollInputs, Audios) /\ guard' = GuardStep(last')
    \/ (\E u \in Usernames : PromoteUserToAdmin(u)) /\ UNCHANGED guard
    \/ (\E u \in Usernames : CorruptVoiceprint(u)) /\ UNCHANGED guard
    \/ (\E c \in Usernames : TamperToken(c)) /\ UNCHANGED guard
    \/ Tick(Instants) /\ UNCHANGED guard

Spec == Init /\ [][Next]_vars

\* The history variable follows the request just answered.
Observed == guard' = GuardStep(last')
\* ... and stays while a request is in the middle.
Answered == IF last' # last THEN Observed ELSE UNCHANGED guard

\* Credentials, challenges and login: alice enrolls, then challenges are
\* requested and logins attempted for alice (enrolled) and bob (unknown),
\* with the right and a wrong PIN and every audio input, within and past the
\* challenge lifetime and the lockout window.
AuthInstants ==
    { StartTime,
      StartTime + CHALLENGE_TTL + 1,
      StartTime + LOCKOUT_DURATION + MsPerMinute }
AuthPins == {PinA, PinB}
NextAuth ==
    \/ Register("alice", PinA, "employee", <<AudioS1, AudioS1, AudioS1>>) /\ Observed
    \/ \E u \in Usernames, p \in AuthPins : GetChallenge(u, p) /\ Observed
    \/ \E u \in Usernames, p \in AuthPins, a \in Audios : Login(u, p, a) /\ Observed
    \/ Tick(AuthInstants) /\ UNCHANGED guard

SpecAuth == Init /\ [][NextAuth]_vars

\* C1: once five successive PIN checks of an identity have failed the
\* identity is Locked, its locked_until set, and while the lock lasts a
\* request for it, the right PIN included, is answered without success,
\* without a new challenge and without a token.
C1_LockedAfterMaxAttempts ==
    /\ [](\A u \in DOMAIN users :
             LockedAt(u, now) => users[u].locked_until # NoTime)
    /\ [][\A u \in DOMAIN users :
             ( /\ LockedAt(u, now)
               /\ last' # last
               /\ last'.op \in {"get_challenge", "login"}
               /\ last'.username = u )
             => ( /\ last'.status # 200
                  /\ challenges' = challenges
                  /\ tokens' = tokens )]_vars

C3_ChallengeUsedOnce ==
    [][( /\ last' # last
         /\ last'.op = "login"
         /\ last'.status = 200 )
       => \E i \in 1..Len(challenges) :
             /\ challenges[i].username = last'.username
             /\ ~challenges[i].used
             /\ challenges'[i].used]_vars

\* C4: a login for a user who has no challenge, or whose challenges are all
\* past their expires_at, does not succeed, whatever their used flags.
C4_NoLoginWithoutLiveChallenge ==
    [][( /\ last' # last
         /\ last'.op = "login"
         /\ \A i \in 1..Len(challenges) :
                challenges[i].username = last'.username
                => challenges[i].expires_at < now )
       => last'.status # 200]_vars

\* C6: get_challenge and login answer a request with an unknown username, a
\* request with a wrong PIN and a request for a locked identity exactly as
\* they answer the unknown username.
C6_RejectionsIndistinguishable ==
    [][\A u \in Usernames :
         ( /\ last' # last
           /\ last'.op \in {"get_challenge", "login"}
           /\ last'.username = u
           /\ \/ u \notin DOMAIN users
              \/ ~VerifyPin(last'.pin, users[u].password_hash)
              \/ LockedAt(u, now) )
         => [status |-> last'.status, detail |-> last'.detail]
              = IF last'.op = "get_challenge"
                THEN GetChallengeOutcome(NoRows, u, last'.pin)
                ELSE LoginOutcome(NoRows, u, last'.pin, last'.audio)]_vars

\* C5: a token is issued or an attendance row added only by a login that
\* answers 200, and a login answers 200 only when the user exists, the PIN
\* verifies, the quality screen passed, enhancement gave a signal, the spoof
\* check said real and the similarity score is at least 0.50; a login that
\* answers anything else leaves tokens and attendance as they were.
C5_LoginOnlyThroughAllGates ==
    /\ [](( last.op = "login" /\ last.status = 200 )
          => /\ last.username \in DOMAIN users
             /\ VerifyPin(last.pin, users[last.username].password_hash)
             /\ CheckAudioQuality(last.audio).is_valid
             /\ LoadAndEnhanceAudio(last.audio) # NoEmb
             /\ CheckSpoofing(last.audio, CheckAudioQuality(last.audio).is_loud).is_real
             /\ LET s == CompareFaces(LoadAndEnhanceAudio(last.audio),
                                      DecryptVoiceprint(users[last.username].voiceprint))
                IN  s.dot >= 0 /\ 4 * s.dot * s.dot >= s.nn)
    /\ [][ /\ ( tokens' # tokens \/ attendance' # attendance )
              => ( last'.op = "login" /\ last'.status = 200 )
           /\ ( last' # last /\ last'.op = "login" /\ last'.status # 200 )
              => ( tokens' = tokens /\ attendance' = attendance ) ]_vars

\* A login was answered 200: its user holds a token and is clocked in.
C5_Witness ==
    /\ last.op = "login"
    /\ last.status = 200
    /\ last.username \in DOMAIN tokens
    /\ \E i \in 1..Len(attendance) :
          attendance[i].username = last.username /\ attendance[i].clock_out = NoTime

\* Shifts: alice (employee) and bob (admin) enroll and log in, bob assigns
\* tasks, alice completes tasks and closes her shift, with her own and
\* another voice, before, just before, at and after the 17:00 cutoff and on
\* the next day.
ShiftInstants ==
    { StartTime,
      Cutoff0 - 361,
      Cutoff0 - 300,
      Cutoff0,
      Cutoff0 - MsPerMinute + MsPerDay }
ShiftAudios == {AudioS1, AudioS2}
NextShift ==
    \/ Register("alice", PinA, "employee", <<AudioS1, AudioS1, AudioS1>>) /\ Observed
    \/ Register("bob", PinA, "admin", <<AudioS2, AudioS2, AudioS2>>) /\ Observed
    \/ Login("alice", PinA, AudioS1) /\ Observed
    \/ Login("bob", PinA, AudioS2) /\ Observed
    \/ \E u \in Usernames : AssignTask("bob", u) /\ Observed
    \/ \E i \in 1..MaxTasks : CompleteTask("alice", i) /\ Observed
    \/ \E a \in ShiftAudios : ClockOut("alice", a) /\ Observed
    \/ Tick(ShiftInstants) /\ UNCHANGED guard

SpecShift == Init /\ [][NextShift]_vars

\* C8: with requests handled one at a time, no identity ever has two open
\* attendance rows of the same date, and a successful login of an identity
\* that has an open row clocked in today adds no row and changes none,
\* clock_in included.
C8_ReloginIdempotent ==
    /\ [](\A i, j \in 1..Len(attendance) :
             ( /\ i # j
               /\ attendance[i].user_id = attendance[j].user_id
               /\ attendance[i].clock_out = NoTime
               /\ attendance[j].clock_out = NoTime )
             => attendance[i].date \div MsPerDay # attendance[j].date \div MsPerDay)
    /\ [][\A u \in DOMAIN users :
             ( /\ \E i \in 1..Len(attendance) :
                     /\ attendance[i].username = u
                     /\ attendance[i].clock_out = NoTime
                     /\ attendance[i].clock_in \div MsPerDay = now \div MsPerDay
               /\ now' = now
               /\ last'.op = "login"
               /\ last'.username = u
               /\ last'.status = 200 )
             => attendance' = attendance]_vars

\* C9: the step that closes an attendance row at `now` sets clock_out to
\* now and, with pending the count of the row owner's incomplete tasks and
\* cutoff today's 17:00: the on-time status and fine 0 if now >= cutoff;
\* else the authorized status and fine 0 if pending = 0; else the fined
\* status and fine round(hours until cutoff * 50, 2); nothing else of the
\* row changes.
C9_ClockOutMatchesReference ==
    [][\A i \in 1..Len(attendance) :
         ( Len(attendance') = Len(attendance) /\ attendance'[i] # attendance[i] )
         => LET pend == Cardinality({ k \in 1..Len(tasks) :
                            /\ tasks[k].user_id = attendance[i].user_id
                            /\ ~tasks[k].is_completed })
                cutoff == (now \div MsPerDay) * MsPerDay + 17 * MsPerHour
                cents == RoundHalfEven((cutoff - now) * 5, 3600)
                ref == IF now >= cutoff
                       THEN [status |-> "Shift Completed (On Time)", fine |-> 0]
                       ELSE IF pend = 0
                       THEN [status |-> "Left Early (Authorized - Work Done)", fine |-> 0]
                       ELSE [status |-> "Left Early (Fined)", fine |-> cents]
            IN  attendance'[i] = [attendance[i] EXCEPT !.clock_out = now,
                                                       !.status = ref.status,
                                                       !.fine_amount = ref.fine]]_vars

\* A shift was just closed early with a task pending, and fined.
C9_Witness ==
    /\ last.op = "clock_out"
    /\ last.status = 200
    /\ \E i \in 1..Len(attendance) :
          /\ attendance[i].clock_out = now
          /\ attendance[i].status = "Left Early (Fined)"
          /\ attendance[i].fine_amount > 0

\* C10 as stated: the step that closes a row before the cutoff for an owner
\* with an incomplete task records the fined status and a fine above 0; the
\* step that closes a row at or after the cutoff records fine 0.
C10_EarlyPendingFinePositive ==
    [][\A i \in 1..Len(attendance) :
         ( Len(attendance') = Len(attendance) /\ attendance'[i] # attendance[i] )
         => /\ ( now < ReplaceHour(now, WORK_END_HOUR) /\ PendingTasks(attendance[i].user_id) >= 1 )
               => ( /\ attendance'[i].status = "Left Early (Fined)"
                    /\ attendance'[i].fine_amount > 0 )
            /\ now >= ReplaceHour(now, WORK_END_HOUR)
               => attendance'[i].fine_amount = 0]_vars

\* C10 amended: the step that closes a row before the cutoff for an owner
\* with an incomplete task records the fined status and a fine that is never
\* negative and is above 0 exactly when more than 0.36 s (half a cent at 50
\* per hour) remain until the cutoff; the step that closes a row at or after
\* the cutoff records fine 0.
C10_EarlyPendingFineRounded ==
    [][\A i \in 1..Len(attendance) :
         ( Len(attendance') = Len(attendance) /\ attendance'[i] # attendance[i] )
         => /\ ( now < ReplaceHour(now, WORK_END_HOUR) /\ PendingTasks(attendance[i].user_id) >= 1 )
               => ( /\ attendance'[i].status = "Left Early (Fined)"
                    /\ attendance'[i].fine_amount >= 0
                    /\ attendance'[i].fine_amount > 0
                          <=> 2 * (ReplaceHour(now, WORK_END_HOUR) - now)
                                > MsPerHour \div FINE_PER_HOUR_REMAINING )
            /\ now >= ReplaceHour(now, WORK_END_HOUR)
               => attendance'[i].fine_amount = 0]_vars

\* A shift was closed within 0.36 s of the cutoff with a task pending: the
\* fined status with a fine of 0.
C10_Witness ==
    \E i \in 1..Len(attendance) :
        /\ attendance[i].clock_out = Cutoff0 - 300
        /\ attendance[i].status = "Left Early (Fined)"
        /\ attendance[i].fine_amount = 0

\* Usernames: names are probed and registered (with PinA, or a PIN too
\* short), in two steps and in one, and challenges are requested and logins
\* attempted for them with a PIN that is nobody's.
NameFiles == { <<AudioS1, AudioS1, AudioS1>>, <<AudioS1, AudioS1, AudioFake>> }
NamePins == {PinA, PinShort}
NextNames ==
    \/ \E u \in Usernames : CheckUsername(u) /\ Observed
    \/ \E u \in Usernames, p \in NamePins : RegisterInit(u, p, "employee") /\ Observed
    \/ \E u \in Usernames, p \in NamePins, f \in NameFiles :
          Register(u, p, "employee", f) /\ Observed
    \/ \E u \in Usernames : GetChallenge(u, PinB) /\ Observed
    \/ \E u \in Usernames : Login(u, PinB, AudioS1) /\ Observed

SpecNames == Init /\ [][NextNames]_vars

\* C7 as stated: for every username u, the store and the store without u's
\* identity give the same response to check_username, register/init,
\* register and get_challenge naming u, and to login naming u with a PIN
\* that is not u's.
C7_NoUnauthenticatedLeak ==
    \A u \in DOMAIN users :
        /\ CheckUsernameOutcome(users, u) = CheckUsernameOutcome(Drop(users, u), u)
        /\ \A p \in Pins :
              /\ RegisterInitOutcome(users, u, p) = RegisterInitOutcome(Drop(users, u), u, p)
              /\ GetChallengeOutcome(users, u, p) = GetChallengeOutcome(Drop(users, u), u, p)
              /\ \A f \in NameFiles :
                    RegisterOutcome(users, u, p, f) = RegisterOutcome(Drop(users, u), u, p, f)
              /\ ~VerifyPin(p, users[u].password_hash)
                 => \A a \in Audios :
                       LoginOutcome(users, u, p, a) = LoginOutcome(Drop(users, u), u, p, a)

\* C7 amended: get_challenge and login naming u with a PIN that is not u's
\* are answered the same with and without u's identity in the store, in the
\* operators and in the response just given; check_username, register/init
\* and register are answered differently once u has an identity.
C7_OnlyPinEndpointsHideExistence ==
    /\ \A u \in DOMAIN users :
          /\ CheckUsernameOutcome(users, u) # CheckUsernameOutcome(Drop(users, u), u)
          /\ \A p \in Pins :
                /\ RegisterInitOutcome(users, u, p) # RegisterInitOutcome(Drop(users, u), u, p)
                /\ \A f \in NameFiles :
                      RegisterOutcome(users, u, p, f) # RegisterOutcome(Drop(users, u), u, p, f)
                /\ ~VerifyPin(p, users[u].password_hash)
                   => /\ GetChallengeOutcome(users, u, p)
                           = GetChallengeOutcome(Drop(users, u), u, p)
                      /\ \A a \in Audios :
                            LoginOutcome(users, u, p, a) = LoginOutcome(Drop(users, u), u, p, a)
    /\ ( /\ last.op \in {"get_challenge", "login"}
         /\ last.username \in DOMAIN users
         /\ ~VerifyPin(last.pin, users[last.username].password_hash) )
       => [status |-> last.status, detail |-> last.detail]
            = IF last.op = "get_challenge"
              THEN GetChallengeOutcome(NoRows, last.username, last.pin)
              ELSE LoginOutcome(NoRows, last.username, last.pin, last.audio)

\* A challenge was asked for an enrolled name with a PIN that is not its
\* own, after the other name, not enrolled, was probed and found free.
C7_Witness ==
    /\ last.op = "get_challenge"
    /\ last.username \in DOMAIN users
    /\ ~VerifyPin(last.pin, users[last.username].password_hash)
    /\ last.status = 401
    /\ \E v \in Usernames : v \notin DOMAIN users

\* Clock-out: alice enrolls, logs in with her own and another voice and
\* asks to clock out with every audio input, clocked in or not, with a live
\* and an expired token, before and after her stored voiceprint stopped
\* decrypting.
ClockInstants == { StartTime, Cutoff0, Cutoff0 + MsPerDay }
NextClock ==
    \/ Register("alice", PinA, "employee", <<AudioS1, AudioS1, AudioS1>>) /\ Observed
    \/ \E a \in ShiftAudios : Login("alice", PinA, a) /\ Observed
    \/ \E a \in Audios : ClockOut("alice", a) /\ Observed
    \/ CorruptVoiceprint("alice") /\ UNCHANGED guard
    \/ Tick(ClockInstants) /\ UNCHANGED guard

SpecClock == Init /\ [][NextClock]_vars

\* C11: a clock-out request of an authenticated identity that has no open
\* attendance row is answered 200 "You are not clocked in." whatever the
\* audio sent, and changes no attendance row, task or user.
C11_ClockOutNoOpenRecordNoop ==
    [][\A c \in DOMAIN tokens :
         ( /\ last' # last \/ attendance' # attendance
           /\ last'.op = "clock_out"
           /\ last'.username = c
           /\ now < tokens[c].exp
           /\ ~\E i \in 1..Len(attendance) :
                  /\ attendance[i].username = tokens[c].sub
                  /\ attendance[i].clock_out = NoTime )
         => ( /\ last'.status = 200
              /\ last'.detail = "You are not clocked in."
              /\ attendance' = attendance
              /\ tasks' = tasks
              /\ users' = users )]_vars

\* alice, not clocked in, sent silence and was told she is not clocked in.
C11_Witness ==
    /\ last.op = "clock_out"
    /\ last.status = 200
    /\ last.detail = "You are not clocked in."
    /\ last.audio = AudioSilent
    /\ attendance # <<>>

\* C12: an open attendance row is changed only by a clock-out answered 200
\* whose audio passed the quality screen, enhancement, the anti-spoof check
\* and scored at least 0.50 against the row owner's voiceprint; a clock-out
\* answered otherwise leaves every row as it was (clock_out unset, status
\* Working, fine unchanged).
C12_ClockOutOnlyThroughGates ==
    [][ /\ \A i \in 1..Len(attendance) :
             ( /\ Len(attendance') = Len(attendance)
               /\ attendance[i].clock_out = NoTime
               /\ attendance'[i] # attendance[i] )
             => ( /\ last'.op = "clock_out"
                  /\ last'.status = 200
                  /\ last'.username \in DOMAIN tokens
                  /\ tokens[last'.username].sub = attendance[i].username
                  /\ CheckAudioQuality(last'.audio).is_valid
                  /\ LoadAndEnhanceAudio(last'.audio) # NoEmb
                  /\ CheckSpoofing(last'.audio,
                                   CheckAudioQuality(last'.audio).is_loud).is_real
                  /\ users[attendance[i].username].voiceprint.tag = "ok"
                  /\ LET s == CompareFaces(LoadAndEnhanceAudio(last'.audio),
                                users[attendance[i].username].voiceprint.ciphertext)
                     IN  s.dot >= 0 /\ 4 * s.dot * s.dot >= s.nn )
        /\ ( last' # last /\ last'.op = "clock_out" /\ last'.status # 200 )
           => attendance' = attendance ]_vars

\* A clock-out was refused at a gate while alice's row stays open.
C12_Witness ==
    /\ last.op = "clock_out"
    /\ last.status = 403
    /\ \E i \in 1..Len(attendance) :
          /\ attendance[i].clock_out = NoTime
          /\ attendance[i].status = "Working"
    /\ \E i \in 1..Len(attendance) : attendance[i].clock_out # NoTime

\* C17: while the stored voiceprint of an identity does not decrypt, every
\* score against it is 0.0, no login or clock-out for the identity issues a
\* token or adds or changes an attendance row, and a request that got past
\* the PIN (or token and open row) and the audio gates is answered 401 as a
\* voice mismatch.
C17_DecryptFailureRejects ==
    [][\A u \in DOMAIN users :
         users[u].voiceprint.tag # "ok"
         => /\ \A a \in Audios :
                 CompareFaces(LoadAndEnhanceAudio(a),
                              DecryptVoiceprint(users[u].voiceprint)).dot = 0
            /\ ( /\ last' # last
                 /\ last'.username = u
                 /\ last'.op \in {"login", "clock_out"} )
               => /\ tokens' = tokens
                  /\ attendance' = attendance
                  /\ last'.status = 200 => last'.detail = "You are not clocked in."
                  /\ ( /\ CheckAudioQuality(last'.audio).is_valid
                       /\ LoadAndEnhanceAudio(last'.audio) # NoEmb
                       /\ CheckSpoofing(last'.audio,
                                        CheckAudioQuality(last'.audio).is_loud).is_real
                       /\ last'.op = "login" => VerifyPin(last'.pin, users[u].password_hash)
                       /\ last'.op = "clock_out"
                          => /\ now < tokens[u].exp
                             /\ \E i \in 1..Len(attendance) :
                                   /\ attendance[i].username = u
                                   /\ attendance[i].clock_out = NoTime )
                     => ( /\ last'.status = 401
                          /\ last'.detail \in {"Voice mismatch",
                                "Voice verification failed for clock out"} )]_vars

\* alice's own voice and PIN were refused as a mismatch on a login, her
\* stored voiceprint no longer decrypting.
C17_Witness ==
    /\ last.op = "login"
    /\ last.audio = AudioS1
    /\ last.status = 401
    /\ last.detail = "Voice mismatch"
    /\ users["alice"].voiceprint.tag = "bad"

\* Enrollment: names are enrolled in one call, with 1 or 3 files, accepted
\* or not, and in steps (init, samples into slots 0..3, finalize), within
\* and past the lifetime of the pending enrollment.
EnrollInstants == { StartTime, StartTime + PENDING_TTL + 1 }
EnrollAudios == {AudioS1, AudioS1b, AudioFake}
NextEnroll ==
    \/ RegisterInit("alice", PinA, "employee") /\ Observed
    \/ \E i \in 0..3, a \in EnrollAudios :
          RegisterUploadSample("alice", i, a) /\ Observed
    \/ RegisterFinalize("alice") /\ Observed
    \/ \E u \in Usernames, f \in EnrollInputs :
          Register(u, PinA, "employee", f) /\ Observed
    \/ Tick(EnrollInstants) /\ UNCHANGED guard

SpecEnroll == Init /\ [][NextEnroll]_vars

\* C13 as stated: a finalize creates an identity only when the 3 sample
\* slots of the pending enrollment are filled; a finalize of an enrollment
\* with an empty slot fails, creates no identity and leaves the pending
\* enrollment as it was.
C13_FinalizeNeedsThreeSlots ==
    [][\A u \in DOMAIN pending :
         ( /\ last' # last \/ users' # users \/ pending' # pending
           /\ last'.op = "finalize"
           /\ last'.username = u )
         => /\ ( u \notin DOMAIN users /\ u \in DOMAIN users' )
               => \A i \in 1..3 : pending[u].samples[i] # NoBlob
            /\ ( \E i \in 1..3 : pending[u].samples[i] = NoBlob )
               => ( /\ last'.status # 200
                    /\ users' = users
                    /\ pending' = pending )]_vars

\* C13 amended: a finalize creates an identity only when the 3 sample slots
\* are filled; with an empty slot it creates no identity and, if the
\* enrollment has not expired, answers 400 and leaves it as it was; if the
\* enrollment has expired it answers 410 and deletes it.
C13_FinalizeNeedsThreeSlotsUnlessExpired ==
    [][\A u \in DOMAIN pending :
         ( /\ last' # last \/ users' # users \/ pending' # pending
           /\ last'.op = "finalize"
           /\ last'.username = u )
         => /\ ( u \notin DOMAIN users /\ u \in DOMAIN users' )
               => \A i \in 1..3 : pending[u].samples[i] # NoBlob
            /\ ( \E i \in 1..3 : pending[u].samples[i] = NoBlob )
               => /\ users' = users
                  /\ IF now > pending[u].expires_at
                     THEN /\ last'.status = 410
                          /\ u \notin DOMAIN pending'
                     ELSE /\ last'.status = 400
                          /\ pending' = pending]_vars

\* A finalize with two of three slots filled was answered 400 and the
\* enrollment is still pending.
C13_Witness ==
    /\ last.op = "finalize"
    /\ last.status = 400
    /\ "alice" \in DOMAIN pending
    /\ Cardinality({ i \in 1..3 : pending["alice"].samples[i] # NoBlob }) = 2

\* C14: the step that creates an identity makes it from exactly 3 accepted
\* samples and stores the component-wise mean of their 3 embeddings: the 3
\* files of a one-shot register, or the 3 slots of the finalized enrollment.
C14_IdentityFromThreeSamples ==
    [][\A u \in Usernames :
         ( u \notin DOMAIN users /\ u \in DOMAIN users' )
         => \/ /\ last'.op = "register"
               /\ Len(last'.files) = 3
               /\ users'[u].voiceprint.tag = "ok"
               /\ \A k \in 1..2 :
                     3 * users'[u].voiceprint.ciphertext[k]
                       = last'.files[1].emb[k] + last'.files[2].emb[k] + last'.files[3].emb[k]
            \/ /\ last'.op = "finalize"
               /\ u \in DOMAIN pending
               /\ \A i \in 1..3 : pending[u].samples[i].tag = "ok"
               /\ users'[u].voiceprint.tag = "ok"
               /\ \A k \in 1..2 :
                     3 * users'[u].voiceprint.ciphertext[k]
                       = pending[u].samples[1].ciphertext[k]
                         + pending[u].samples[2].ciphertext[k]
                         + pending[u].samples[3].ciphertext[k]]_vars

\* C15: no username has a pending enrollment and an identity at once.
C15_PendingXorIdentity ==
    DOMAIN pending \cap DOMAIN users = {}

\* C16: a one-shot register in which some submitted file fails the quality
\* screen, enhancement or the anti-spoof check is answered with an error and
\* creates no identity, however many of the files before it were accepted.
C16_EnrollAllOrNothing ==
    [][( /\ last' # last \/ users' # users
         /\ last'.op = "register"
         /\ \E i \in 1..Len(last'.files) :
               \/ ~CheckAudioQuality(last'.files[i]).is_valid
               \/ LoadAndEnhanceAudio(last'.files[i]) = NoEmb
               \/ ~CheckSpoofing(last'.files[i],
                                  CheckAudioQuality(last'.files[i]).is_loud).is_real )
       => ( /\ last'.status # 200
            /\ users' = users )]_vars

\* A register whose third file was a fake, after two accepted ones, was
\* refused and the name has no identity.
C16_Witness ==
    /\ last.op = "register"
    /\ last.files = <<AudioS1, AudioS1, AudioFake>>
    /\ last.status = 500
    /\ last.username \notin DOMAIN users

\* C18: a login with the right PIN that is refused as a voice mismatch
\* raises the identity's failed_attempts by exactly 1.
C18_MismatchCountsFailure ==
    [][\A u \in DOMAIN users :
         ( /\ last' # last
           /\ last'.op = "login"
           /\ last'.username = u
           /\ VerifyPin(last'.pin, users[u].password_hash)
           /\ last'.status = 401
           /\ last'.detail = "Voice mismatch" )
         => users'[u].failed_attempts = users[u].failed_attempts + 1]_vars

\* C19: a sample on which the anti-spoof stage errors, in the classifier or
\* in the playback analysis, is treated as not real: no login with it is
\* answered 200 and no enrollment gate accepts it.
C19_SpoofErrorFailsClosed ==
    /\ \A a \in Audios :
          ( a.cls = "ERROR" \/ a.pb_error )
          => ( /\ ~CheckSpoofing(a, CheckAudioQuality(a).is_loud).is_real
               /\ SampleGates(a).status # 200 )
    /\ ( last.op \in {"login", "clock_out"}
         /\ ( last.audio.cls = "ERROR" \/ last.audio.pb_error ) )
       => last.status # 200

C21_NoTempFileLeft ==
    uploads = {}

\* C22: every rejected login or challenge request (unknown user, wrong PIN,
\* quality issue, spoof detected, voice mismatch) appends one LoginAttempt
\* row with success false, for the name it was made for, and the rows
\* already there stay as they are.
C22_RejectionsAudited ==
    [][( /\ last' # last
         /\ last'.op \in {"login", "get_challenge"}
         /\ last'.status # 200 )
       => ( /\ Len(login_attempts') = Len(login_attempts) + 1
            /\ SubSeq(login_attempts', 1, Len(login_attempts)) = login_attempts
            /\ login_attempts'[Len(login_attempts')].success = FALSE
            /\ login_attempts'[Len(login_attempts')].username = last'.username )]_vars

\* Session tokens: alice enrolls as an admin and logs in, at a whole second
\* or half a second later; she can swap the token issued for a forgery of
\* it, and calls the protected operations with what she holds, just issued,
\* half a second before 24 hours are over, and later.
TokenInstants ==
    { StartTime,
      StartTime + 500,
      StartTime + TOKEN_TTL - 500,
      StartTime + TOKEN_TTL + 250 }
NextToken ==
    \/ Register("alice", PinA, "admin", <<AudioS1, AudioS1, AudioS1>>) /\ Observed
    \/ Login("alice", PinA, AudioS1) /\ Observed
    \/ TamperToken("alice") /\ UNCHANGED guard
    \/ ClockOut("alice", AudioS1) /\ Observed
    \/ AssignTask("alice", "alice") /\ Observed
    \/ CompleteTask("alice", 1) /\ Observed
    \/ Tick(TokenInstants) /\ UNCHANGED guard

SpecToken == Init /\ [][NextToken]_vars

\* C23: a protected operation (clock-out, task assignment, task completion)
\* takes the token it is called with only if the token is as issued: the
\* pinned algorithm in its header, signed under the configured key over the
\* claims it carries, and less than 24 hours old; called with a token that
\* is past its exp, or whose claims or signature were altered, or that is
\* signed under another key or names another algorithm, it answers 401
\* "Invalid token" and changes nothing.
C23_TokenAcceptedOnlyIfGenuine ==
    [][\A c \in DOMAIN tokens :
         ( /\ last' # last \/ attendance' # attendance \/ tasks' # tasks
           /\ last'.op \in {"clock_out", "assign_task", "complete_task"}
           /\ last'.username = c )
         => LET t == tokens[c]
                genuine == /\ t.alg = "HS256"
                           /\ t.key = JWT_SECRET
                           /\ t.signed = <<t.sub, t.role, t.exp>>
                refused == last'.status = 401 /\ last'.detail = "Invalid token"
            IN  /\ ~refused => ( genuine /\ now - t.iat < TOKEN_TTL )
                /\ ( ~genuine \/ now >= t.exp )
                   => ( /\ refused
                        /\ attendance' = attendance
                        /\ tasks' = tasks
                        /\ users' = users )]_vars

\* alice, clocked in, asked to clock out with her token turned into an
\* unsigned one (alg none), still ahead of its exp, and was refused.
C23_Witness ==
    /\ last.op = "clock_out"
    /\ last.status = 401
    /\ last.detail = "Invalid token"
    /\ "alice" \in DOMAIN tokens
    /\ tokens["alice"].alg = "none"
    /\ now < tokens["alice"].exp
    /\ \E i \in 1..Len(attendance) :
          attendance[i].username = "alice" /\ attendance[i].clock_out = NoTime

\* Enrollment inputs: alice enrolls in steps and bob in one call, with a
\* PIN of 4 digits, one too short, one too long and one with a character
\* that is no letter or digit, and with the role employee, admin or a
\* string that is neither.
PolicyPins == {PinA, PinShort, PinLong, PinSymbol}
PolicyRoles == {"employee", "admin", "root"}
NextPolicy ==
    \/ \E p \in PolicyPins, r \in PolicyRoles : RegisterInit("alice", p, r) /\ Observed
    \/ \E i \in 0..2 : RegisterUploadSample("alice", i, AudioS1) /\ Observed
    \/ RegisterFinalize("alice") /\ Observed
    \/ \E p \in PolicyPins, r \in PolicyRoles :
          Register("bob", p, r, <<AudioS1, AudioS1, AudioS1>>) /\ Observed

SpecPolicy == Init /\ [][NextPolicy]_vars

\* C24: an enrollment with a PIN shorter than 4, longer than 12 or holding
\* a character that is no letter or digit is refused, so that every
\* pin_hash stored, of an identity or of a pending enrollment, is that of a
\* PIN inside the policy, which verifies against it.
C24_StoredPinsInPolicy ==
    /\ ( last.op \in {"register_init", "register"} /\ ~ValidatePin(last.pin) )
       => last.status # 200
    /\ \A u \in DOMAIN users :
          /\ ValidatePin(users[u].password_hash.of)
          /\ VerifyPin(users[u].password_hash.of, users[u].password_hash)
    /\ \A u \in DOMAIN pending :
          /\ ValidatePin(pending[u].password_hash.of)
          /\ VerifyPin(pending[u].password_hash.of, pending[u].password_hash)

\* C29: the role of every identity and of every pending enrollment is
\* employee or admin, and an enrollment asked for with another role is
\* refused.
C29_RolesInEnum ==
    /\ \A u \in DOMAIN users : users[u].role \in {"employee", "admin"}
    /\ \A u \in DOMAIN pending : pending[u].role \in {"employee", "admin"}

\* C25: a challenge request removes or invalidates the user's unused
\* challenges that have expired before it records the new one: the store
\* holds no unused challenge of a user that expired before a challenge of
\* that user was issued.
C25_ExpiredChallengesRemoved ==
    \A i, j \in 1..Len(challenges) :
        ( /\ challenges[i].username = challenges[j].username
          /\ ~challenges[i].used )
        => challenges[i].expires_at >= challenges[j].expires_at - CHALLENGE_TTL

\* C26: the challenges table changes only by one row being added for the
\* user of a challenge request whose username has an identity and whose PIN
\* is that identity's; a challenge request with an unknown username or a
\* wrong PIN is refused and leaves every table and every token as it was.
C26_ChallengeOnlyAfterPin ==
    [][ /\ challenges' # challenges
           => ( /\ last'.op = "get_challenge"
                /\ last'.username \in DOMAIN users
                /\ users[last'.username].password_hash = HashPin(last'.pin)
                /\ Len(challenges') = Len(challenges) + 1
                /\ SubSeq(challenges', 1, Len(challenges)) = challenges
                /\ challenges'[Len(challenges')].username = last'.username
                /\ ~challenges'[Len(challenges')].used )
        /\ ( /\ last' # last
             /\ last'.op = "get_challenge"
             /\ \/ last'.username \notin DOMAIN users
                \/ users[last'.username].password_hash # HashPin(last'.pin) )
           => ( /\ last'.status = 401
                /\ users' = users
                /\ pending' = pending
                /\ challenges' = challenges
                /\ attendance' = attendance
                /\ tasks' = tasks
                /\ login_attempts' = login_attempts
                /\ tokens' = tokens ) ]_vars

\* A challenge request for alice with a PIN not hers was refused, after one
\* with her PIN had been given a challenge.
C26_Witness ==
    /\ last.op = "get_challenge"
    /\ last.username = "alice"
    /\ last.pin = PinB
    /\ last.status = 401
    /\ Len(challenges) = 1
    /\ challenges[1].username = "alice"

\* C27: in every state each attendance row has clock_out unset exactly
\* when its status is Working, a fine that is not negative, and a fine above
\* 0 only under the fined status; no row shows clock_out set with the status
\* still Working.
C27_AttendanceRowsConsistent ==
    \A i \in 1..Len(attendance) :
        /\ attendance[i].clock_out = NoTime <=> attendance[i].status = "Working"
        /\ attendance[i].fine_amount >= 0
        /\ attendance[i].fine_amount > 0 => attendance[i].status = "Left Early (Fined)"

\* One row was closed early with a fine while another is open.
C27_Witness ==
    \E i, j \in 1..Len(attendance) :
        /\ attendance[i].clock_out # NoTime
        /\ attendance[i].status = "Left Early (Fined)"
        /\ attendance[i].fine_amount > 0
        /\ attendance[j].clock_out = NoTime
        /\ attendance[j].status = "Working"

\* C30: no identity has two attendance rows with clock_out unset, whatever
\* their dates.
C30_OneOpenRowPerIdentity ==
    \A i, j \in 1..Len(attendance) :
        ( /\ i # j
          /\ attendance[i].user_id = attendance[j].user_id
          /\ attendance[i].clock_out = NoTime )
        => attendance[j].clock_out # NoTime

\* C28: an upload of a sample or a finalize for a pending enrollment whose
\* expires_at has passed is answered 410, deletes the enrollment (and with
\* it its samples), stores nothing and creates no identity; an upload or a
\* finalize for a username that has no pending enrollment, as after that
\* deletion, is answered 404 and changes nothing.
C28_ExpiredEnrollmentDeleted ==
    [][\A u \in Usernames :
         ( /\ last' # last \/ pending' # pending \/ users' # users
           /\ last'.op \in {"upload_sample", "finalize"}
           /\ last'.username = u )
         => /\ ( u \in DOMAIN pending /\ now > pending[u].expires_at )
               => ( /\ last'.status = 410
                    /\ pending' = [v \in DOMAIN pending \ {u} |-> pending[v]]
                    /\ users' = users
                    /\ uploads' = uploads )
            /\ u \notin DOMAIN pending
               => ( /\ last'.status = 404
                    /\ pending' = pending
                    /\ users' = users
                    /\ uploads' = uploads )]_vars

\* A sample uploaded for alice's enrollment after it had expired was
\* answered 410; she has no pending enrollment and no identity.
C28_Witness ==
    /\ last.op = "upload_sample"
    /\ last.username = "alice"
    /\ last.status = 410
    /\ now > StartTime + PENDING_TTL
    /\ "alice" \notin DOMAIN pending
    /\ "alice" \notin DOMAIN users

\* C35: the enrollment calls, which need no session token (register/init,
\* register/upload_sample, register/finalize, register), never create an
\* identity whose role is admin.
C35_NoAdminByEnrollment ==
    \A u \in DOMAIN users : users[u].role # "admin"

\* Tasks and roles: alice and bob enroll as employees and log in; bob is
\* promoted to admin by the operator's script; both call the admin
\* endpoints, the task endpoints and the fine estimate; alice closes her
\* shift, an hour before, just before and at the 17:00 cutoff.
TaskInstants == { StartTime, Cutoff0 - 361, Cutoff0 }
NextTasks ==
    \/ \E u \in Usernames :
          Register(u, PinA, "employee", <<AudioS1, AudioS1, AudioS1>>) /\ Observed
    \/ \E u \in Usernames : Login(u, PinA, AudioS1) /\ Observed
    \/ PromoteUserToAdmin("bob") /\ UNCHANGED guard
    \/ \E c \in Usernames : AssignTask(c, "alice") /\ Observed
    \/ \E c \in Usernames : AdminRead(c, "admin_dashboard_stats") /\ Observed
    \/ \E c \in Usernames : CompleteTask(c, 1) /\ Observed
    \/ CheckPendingTasks("alice") /\ Observed
    \/ ClockOut("alice", AudioS1) /\ Observed
    \/ Tick(TaskInstants) /\ UNCHANGED guard

SpecTasks == Init /\ [][NextTasks]_vars

\* C33: at every instant and for every identity, with n its incomplete
\* tasks, the estimate of check_pending_tasks agrees with what a clock-out
\* at that instant records: will_be_fined exactly when the status would be
\* the fined one, and estimated_fine the fine_amount; and the step that
\* closes a row stores the fine the estimate gives in the state it starts
\* from.
C33_EstimateMatchesClockOut ==
    /\ [](\A u \in DOMAIN users :
             LET n == Cardinality({ k \in 1..Len(tasks) :
                         tasks[k].user_id = users[u].id /\ ~tasks[k].is_completed })
                 e == CheckPendingTasksResult(now, n)
                 r == ClockOutResult(now, n)
             IN  /\ e.will_be_fined <=> r.status = "Left Early (Fined)"
                 /\ e.estimated_fine = r.fine)
    /\ [][\A i \in 1..Len(attendance) :
             ( Len(attendance') = Len(attendance) /\ attendance'[i] # attendance[i] )
             => LET n == Cardinality({ k \in 1..Len(tasks) :
                            /\ tasks[k].user_id = attendance[i].user_id
                            /\ ~tasks[k].is_completed })
                    e == CheckPendingTasksResult(now, n)
                IN  /\ attendance'[i].fine_amount = e.estimated_fine
                    /\ e.will_be_fined <=> attendance'[i].status = "Left Early (Fined)"]_vars

\* alice, clocked in, with a task pending and 0.361 s to go until the
\* cutoff, asked for the estimate.
C33_Witness ==
    /\ last.op = "check_pending_tasks"
    /\ last.status = 200
    /\ last.detail = "You have pending task(s)"
    /\ now = Cutoff0 - 361
    /\ \E i \in 1..Len(attendance) :
          attendance[i].username = "alice" /\ attendance[i].clock_out = NoTime

\* C34: an admin endpoint (the listings, the dashboard, assign_task) goes
\* on only when the token it is called with is valid, its subject has an
\* identity and the role stored for that identity now is admin; called by
\* anyone else it answers 401 or 403, adds no task and changes no table.
C34_AdminOnly ==
    [][\A c \in DOMAIN tokens :
         ( /\ last' # last \/ tasks' # tasks
           /\ last'.op \in AdminReads \cup {"assign_task"}
           /\ last'.username = c )
         => LET t == tokens[c]
                admin == /\ t.alg = JWT_ALGORITHM /\ t.key = JWT_SECRET
                         /\ t.signed = <<t.sub, t.role, t.exp>>
                         /\ now < t.exp
                         /\ t.sub \in DOMAIN users
                         /\ users[t.sub].role = "admin"
            IN  /\ last'.status \notin {401, 403} => admin
                /\ ~admin => ( /\ last'.status \in {401, 403}
                               /\ users' = users
                               /\ pending' = pending
                               /\ challenges' = challenges
                               /\ attendance' = attendance
                               /\ tasks' = tasks )]_vars

\* bob, whose token still says employee, was promoted and assigned a task;
\* alice, an employee, was refused the dashboard.
C34_Witness ==
    /\ last.op = "admin_dashboard_stats"
    /\ last.username = "alice"
    /\ last.status = 403
    /\ Len(tasks) = 1
    /\ "bob" \in DOMAIN tokens
    /\ tokens["bob"].role = "employee"

\* C36: a task goes from incomplete to completed only by a complete_task
\* answered 200 whose token's subject owns the task; a complete_task of a
\* caller who owns no task is answered 404 and changes nothing; a completed
\* task never goes back to incomplete; and the count of an identity's
\* incomplete tasks goes down only by a completion of its own.
C36_OnlyOwnerCompletes ==
    [][ /\ Len(tasks') >= Len(tasks)
        /\ \A i \in 1..Len(tasks) :
              /\ tasks[i].is_completed => tasks'[i].is_completed
              /\ tasks'[i].user_id = tasks[i].user_id
              /\ ( ~tasks[i].is_completed /\ tasks'[i].is_completed )
                 => ( /\ last'.op = "complete_task"
                      /\ last'.status = 200
                      /\ last'.username \in DOMAIN tokens
                      /\ tokens[last'.username].sub \in DOMAIN users
                      /\ users[tokens[last'.username].sub].id = tasks[i].user_id )
        /\ \A c \in DOMAIN tokens :
              ( /\ last' # last
                /\ last'.op = "complete_task"
                /\ last'.username = c
                /\ now < tokens[c].exp
                /\ ~\E i \in 1..Len(tasks) : tasks[i].user_id = users[tokens[c].sub].id )
              => ( /\ last'.status = 404
                   /\ tasks' = tasks
                   /\ users' = users
                   /\ attendance' = attendance ) ]_vars

\* bob asked to complete alice's task and was told there is no such task;
\* the task is still incomplete.
C36_Witness ==
    /\ last.op = "complete_task"
    /\ last.username = "bob"
    /\ last.status = 404
    /\ Len(tasks) = 1
    /\ tasks[1].user_id = users["alice"].id
    /\ ~tasks[1].is_completed

\* Logins side by side: alice enrolls, and two workers take logins for
\* her, with her PIN and her own or another speaker's voice, each login
\* going through its statements while the other may be anywhere in its own.
ConcAudios == {AudioS1, AudioS2}
NextConc ==
    \/ Register("alice", PinA, "employee", <<AudioS1, AudioS1, AudioS1>>) /\ Observed
    \/ \E w \in Workers, a \in ConcAudios : LoginReceive(w, "alice", PinA, a) /\ Answered
    \/ \E w \in Workers : LoginGates(w) /\ Answered
    \/ \E w \in Workers : LoginQuery(w) /\ Answered
    \/ \E w \in Workers : LoginCommit(w) /\ Answered

SpecConc == Init /\ [][NextConc]_vars

\* C31: logins of one identity running side by side leave at most one open
\* attendance row of it clocked in on a given day.
C31_ConcurrentLoginsOneRow ==
    \A i, j \in 1..Len(attendance) :
        ( /\ i # j
          /\ attendance[i].user_id = attendance[j].user_id
          /\ attendance[i].clock_out = NoTime
          /\ attendance[j].clock_out = NoTime )
        => DateOf(attendance[i].clock_in) # DateOf(attendance[j].clock_in)

\* C32: the answer a login gets past the PIN is the one the gates give on
\* the audio uploaded with that login, whatever other logins for the same
\* username are running.
C32_DecisionFromOwnAudio ==
    [][( /\ last' # last
         /\ last'.op = "login"
         /\ last'.username \in DOMAIN users
         /\ VerifyPin(last'.pin, users[last'.username].password_hash) )
       => last'.status
            = VoiceGates(last'.audio, users[last'.username].voiceprint,
                         "Voice mismatch").status]_vars

=============================================================================
